---- MODULE Spec2Model ----
(***************************************************************************)
(* A model of src/lib/api.js of stac-server: the extraction and validation *)
(* of request parameters, the search and aggregate handlers around their   *)
(* single backend call, and the construction of the pagination link.       *)
(*                                                                         *)
(* JavaScript values are tagged records.  A string is the sequence of its  *)
(* characters ([t |-> "string", s |-> <<"1", "0">>]) or, for a string that *)
(* holds the JSON text of a value, that value                              *)
(* ([t |-> "string", json |-> v]).  An object is a function from its keys. *)
(***************************************************************************)
EXTENDS Integers, Sequences, FiniteSets, TLC

VARIABLES
    pc,               \* position of the routine: "start", "calling", "done"
    fn,               \* the routine this run executes
    queryParameters,  \* the caller's parameter mapping
    httpMethod,       \* "GET" or "POST"
    collectionId,     \* the collection of the route, or Undefined
    searchParams,     \* the query handed to the backend
    backendCalls,     \* number of calls made to the backend
    backendResult,    \* what the backend call returned or threw
    outcome           \* what the routine returned or threw

vars == <<pc, fn, queryParameters, httpMethod, collectionId, searchParams,
          backendCalls, backendResult, outcome>>

(***************************************************************************)
(* JavaScript values                                                       *)
(***************************************************************************)
Undefined == [t |-> "undefined"]
NaN == [t |-> "NaN"]
Num(n) == [t |-> "number", n |-> n]
Str(s) == [t |-> "string", s |-> s]
JsonText(v) == [t |-> "string", json |-> v]
Arr(a) == [t |-> "array", a |-> a]
Obj(o) == [t |-> "object", o |-> o]
EmptyObject == Obj(<<>>)

IsString(v) == v.t = "string"
IsChars(v) == v.t = "string" /\ "s" \in DOMAIN v
IsJsonText(v) == v.t = "string" /\ "json" \in DOMAIN v
IsNumber(v) == v.t = "number"
IsNaN(v) == v.t = "NaN"
IsArray(v) == v.t = "array"

False == [t |-> "false"]

\* ToBoolean: undefined, false, NaN, 0 and the empty string are falsy.
Truthy(v) ==
    CASE v.t = "undefined" -> FALSE
      [] v.t = "false" -> FALSE
      [] v.t = "NaN" -> FALSE
      [] v.t = "number" -> v.n # 0
      [] IsChars(v) -> v.s # <<>>
      [] OTHER -> TRUE

\* obj[key] of a mapping: undefined for a key the mapping does not hold.
Get(obj, key) == IF key \in DOMAIN obj THEN obj[key] ELSE Undefined

\* pickBy(obj): the mapping without its falsy values.
pickBy(obj) ==
    LET keep == {k \in DOMAIN obj : Truthy(obj[k])}
    IN [k \in keep |-> obj[k]]

\* assign(obj, src): obj with every key of src set.
assign(obj, src) ==
    [k \in DOMAIN obj \cup DOMAIN src |-> IF k \in DOMAIN src THEN src[k] ELSE obj[k]]

Return(v) == [kind |-> "return", val |-> v]
Throw(name, message) == [kind |-> "throw", name |-> name, message |-> message]
ValidationError(message) == Throw("ValidationError", message)
NoOutcome == [kind |-> "none"]

Returned(r) == r.kind = "return"
Threw(r) == r.kind = "throw"
ThrewValidation(r) == r.kind = "throw" /\ r.name = "ValidationError"

(***************************************************************************)
(* Characters and numerals                                                 *)
(***************************************************************************)
DigitChars == <<"0", "1", "2", "3", "4", "5", "6", "7", "8", "9">>
IsDigit(c) == \E i \in 1..Len(DigitChars) : DigitChars[i] = c
DigitVal(c) == (CHOOSE i \in 1..Len(DigitChars) : DigitChars[i] = c) - 1

\* The longest prefix of s made of digits.
RECURSIVE LeadingDigits(_)
LeadingDigits(s) ==
    IF s = <<>> \/ ~IsDigit(Head(s)) THEN <<>>
    ELSE <<Head(s)>> \o LeadingDigits(Tail(s))

RECURSIVE DigitsValue(_)
DigitsValue(ds) ==
    IF ds = <<>> THEN 0
    ELSE 10 * DigitsValue(SubSeq(ds, 1, Len(ds) - 1)) + DigitVal(ds[Len(ds)])

RECURSIVE NatToChars(_)
NatToChars(n) ==
    IF n < 10 THEN <<DigitChars[n + 1]>>
    ELSE NatToChars(n \div 10) \o <<DigitChars[(n % 10) + 1]>>

\* String(n) of an integer.
NumToChars(n) == IF n < 0 THEN <<"-">> \o NatToChars(-n) ELSE NatToChars(n)

\* parseInt / parseFloat of a character string without white space, radix
\* prefix, fraction or exponent: an optional sign, then the longest run of
\* digits; NaN when there is no digit.  What follows the digits is ignored.
ParseNumberPrefix(s) ==
    LET signed == s # <<>> /\ Head(s) \in {"-", "+"}
        body == IF signed THEN Tail(s) ELSE s
        ds == LeadingDigits(body)
    IN IF ds = <<>> THEN NaN
       ELSE IF signed /\ Head(s) = "-" THEN Num(-DigitsValue(ds))
       ELSE Num(DigitsValue(ds))

\* parseInt(v): v is converted to a string first.
parseInt(v) ==
    CASE IsChars(v) -> ParseNumberPrefix(v.s)
      [] IsNumber(v) -> ParseNumberPrefix(NumToChars(v.n))
      [] OTHER -> NaN

\* parseFloat as Array.prototype.map calls it, on one component of a split.
parseFloat(s) == ParseNumberPrefix(s)

\* A string that is a decimal integer numeral: an optional sign and digits.
IsNumeral(s) ==
    LET body == IF s # <<>> /\ Head(s) \in {"-", "+"} THEN Tail(s) ELSE s
    IN body # <<>> /\ \A i \in 1..Len(body) : IsDigit(body[i])

NumeralValue(s) ==
    IF Head(s) = "-" THEN -DigitsValue(Tail(s))
    ELSE IF Head(s) = "+" THEN DigitsValue(Tail(s))
    ELSE DigitsValue(s)

\* ToNumber of a value, as the relational operators apply it.
ToNumber(v) ==
    CASE IsNumber(v) -> v
      [] IsChars(v) -> IF v.s = <<>> THEN Num(0)
                       ELSE IF IsNumeral(v.s) THEN Num(NumeralValue(v.s))
                       ELSE NaN
      [] OTHER -> NaN

\* The characters of the model in code-unit order.
CharOrder == <<"+", ",", "-", ".", "/", "0", "1", "2", "3", "4", "5", "6", "7",
               "8", "9", ":", "T", "Z", "a", "b", "t", "z">>
CharRank(c) == CHOOSE i \in 1..Len(CharOrder) : CharOrder[i] = c

\* a > b on two strings: the comparison by code units.
RECURSIVE CharsGreater(_, _)
CharsGreater(a, b) ==
    IF a = <<>> THEN FALSE
    ELSE IF b = <<>> THEN TRUE
    ELSE IF Head(a) # Head(b) THEN CharRank(Head(a)) > CharRank(Head(b))
    ELSE CharsGreater(Tail(a), Tail(b))

\* a > b: two strings are compared as strings, anything else as numbers, and
\* a comparison with NaN is false.
JsGreater(a, b) ==
    IF IsChars(a) /\ IsChars(b) THEN CharsGreater(a.s, b.s)
    ELSE LET x == ToNumber(a)
             y == ToNumber(b)
         IN IsNumber(x) /\ IsNumber(y) /\ x.n > y.n

(***************************************************************************)
(* split and join                                                          *)
(***************************************************************************)
\* s.split(sep) for a one-character separator.
RECURSIVE Split(_, _)
Split(s, sep) ==
    IF \A i \in 1..Len(s) : s[i] # sep THEN <<s>>
    ELSE LET i == CHOOSE j \in 1..Len(s) :
                      s[j] = sep /\ \A k \in 1..(j - 1) : s[k] # sep
         IN <<SubSeq(s, 1, i - 1)>> \o Split(SubSeq(s, i + 1, Len(s)), sep)

\* parts.join(sep) for parts that are strings.
RECURSIVE Join(_, _)
Join(parts, sep) ==
    IF parts = <<>> THEN <<>>
    ELSE IF Len(parts) = 1 THEN parts[1]
    ELSE parts[1] \o <<sep>> \o Join(Tail(parts), sep)

\* The parts of a split as string values.
RECURSIVE AsStrings(_)
AsStrings(parts) ==
    IF parts = <<>> THEN <<>> ELSE <<Str(Head(parts))>> \o AsStrings(Tail(parts))

RECURSIVE MapParseFloat(_)
MapParseFloat(parts) ==
    IF parts = <<>> THEN <<>>
    ELSE <<parseFloat(Head(parts))>> \o MapParseFloat(Tail(parts))

RECURSIVE FilterNotNaN(_)
FilterNotNaN(xs) ==
    IF xs = <<>> THEN <<>>
    ELSE IF IsNaN(Head(xs)) THEN FilterNotNaN(Tail(xs))
    ELSE <<Head(xs)>> \o FilterNotNaN(Tail(xs))

(***************************************************************************)
(* extractBbox                                                             *)
(***************************************************************************)
\* extent(bbox).polygon() of @mapbox/extent: the ring W,S - E,S - E,N - W,N -
\* W,S read from positions 0..3 of the array.
ExtentPolygon(b) ==
    Obj([type |-> Str(<<"Polygon">>),
         coordinates |-> Arr(<<Arr(<<Arr(<<b[1], b[2]>>), Arr(<<b[3], b[2]>>),
                                    Arr(<<b[3], b[4]>>), Arr(<<b[1], b[4]>>),
                                    Arr(<<b[1], b[2]>>)>>)>>)])

\* CheckBboxArray with the latitude test of a 6-component box reading the
\* positions of a 4-component box.
CheckBboxArray_SamePositions(bboxArray) ==
    IF Len(bboxArray) # 4 /\ Len(bboxArray) # 6
    THEN ValidationError("Invalid bbox, must have 4 or 6 points")
    ELSE IF JsGreater(bboxArray[2], bboxArray[4])
    THEN ValidationError("Invalid bbox, SW latitude must be less than NE latitude")
    ELSE Return(ExtentPolygon(bboxArray))

\* The checks on the components once the array is known.
CheckBboxArray(bboxArray) ==
    IF Len(bboxArray) # 4 /\ Len(bboxArray) # 6
    THEN ValidationError("Invalid bbox, must have 4 or 6 points")
    ELSE IF \/ (Len(bboxArray) = 4 /\ JsGreater(bboxArray[2], bboxArray[4]))
            \/ (Len(bboxArray) = 6 /\ JsGreater(bboxArray[2], bboxArray[5]))
    THEN ValidationError("Invalid bbox, SW latitude must be less than NE latitude")
    ELSE Return(ExtentPolygon(bboxArray))

extractBbox(params, method) ==
    LET bbox == Get(params, "bbox")
    IN IF Truthy(bbox)
       THEN IF method = "GET" /\ IsString(bbox)
            THEN CheckBboxArray(FilterNotNaN(MapParseFloat(Split(bbox.s, ","))))
            ELSE IF method = "POST" /\ IsArray(bbox)
            THEN CheckBboxArray(bbox.a)
            ELSE ValidationError("Invalid bbox")
       ELSE Return(Undefined)

(***************************************************************************)
(* extractDatetime                                                         *)
(*                                                                         *)
(* A datetime string is a sequence of symbols: the characters "/", "." and *)
(* "#" (any character that occurs in no timestamp), and one symbol for the *)
(* whole text of a timestamp: "T1" and "T2" are two RFC3339 timestamps,    *)
(* T1 the earlier instant, "t1" is T1 written in lower case, and "D32" has *)
(* the RFC3339 shape but names no calendar date (day 32).                  *)
(***************************************************************************)
ToUpperCaseSymbol(c) == IF c = "t1" THEN "T1" ELSE c

RECURSIVE toUpperCase(_)
toUpperCase(s) ==
    IF s = <<>> THEN <<>>
    ELSE <<ToUpperCaseSymbol(Head(s))>> \o toUpperCase(Tail(s))

\* RFC3339_REGEX.test(s): the pattern is anchored at both ends and knows
\* upper case only, so s is one upper-case timestamp and nothing else.
RFC3339_REGEX(s) == Len(s) = 1 /\ s[1] \in {"T1", "T2", "D32"}

\* DateTime.fromISO(s).isValid
IsValidDateTime(s) == s[1] # "D32"

\* The instant of a valid timestamp (valueOf of the DateTime).
DateTimeValue(s) == IF s[1] = "T1" THEN 1 ELSE 2

rfc3339ToDateTime(s) ==
    IF ~RFC3339_REGEX(s)
    THEN ValidationError("datetime value is invalid, does not match RFC3339 format")
    ELSE IF IsValidDateTime(s) THEN Return(Num(DateTimeValue(s)))
    ELSE ValidationError("datetime value is invalid, unit out of range")

\* validateStartAndEndDatetimes with end <= start rejected as well.
validateStartAndEndDatetimes_Strict(startDateTime, endDateTime) ==
    IF startDateTime # Undefined /\ endDateTime # Undefined
           /\ endDateTime.n <= startDateTime.n
    THEN ValidationError(
        "datetime value is invalid, start datetime must be before end datetime with interval")
    ELSE Return(Undefined)

\* A DateTime object is truthy whatever its instant, hence the test on the
\* type and not on the number.
validateStartAndEndDatetimes(startDateTime, endDateTime) ==
    IF startDateTime # Undefined /\ endDateTime # Undefined
           /\ endDateTime.n < startDateTime.n
    THEN ValidationError(
        "datetime value is invalid, start datetime must be before end datetime with interval")
    ELSE Return(Undefined)

DotDot == <<".", ".">>

extractDatetime(params) ==
    LET datetime == Get(params, "datetime")
        datetimeUpperCase == toUpperCase(datetime.s)
        parts == Split(datetimeUpperCase, "/")
        start == parts[1]
        hasEnd == Len(parts) >= 2
        end == IF hasEnd THEN parts[2] ELSE <<>>
        rest == IF Len(parts) > 2 THEN SubSeq(parts, 3, Len(parts)) ELSE <<>>
        startDateTime == IF start # <<>> /\ start # DotDot
                         THEN rfc3339ToDateTime(start) ELSE Return(Undefined)
        endDateTime == IF end # <<>> /\ end # DotDot
                       THEN rfc3339ToDateTime(end) ELSE Return(Undefined)
    IN IF Truthy(datetime)
       THEN IF Len(rest) # 0
            THEN ValidationError(
                "datetime value is invalid, too many forward slashes for an interval")
            ELSE IF \/ (start = <<>> /\ end = <<>>)
                    \/ (start = DotDot /\ hasEnd /\ end = DotDot)
                    \/ (start = <<>> /\ hasEnd /\ end = DotDot)
                    \/ (start = DotDot /\ end = <<>>)
            THEN ValidationError(
                "datetime value is invalid, at least one end of the interval must be closed")
            ELSE IF Threw(startDateTime) THEN startDateTime
            ELSE IF Threw(endDateTime) THEN endDateTime
            ELSE LET v == validateStartAndEndDatetimes(startDateTime.val,
                                                       endDateTime.val)
                 IN IF Threw(v) THEN v ELSE Return(Str(datetimeUpperCase))
       ELSE Return(Undefined)

(***************************************************************************)
(* extractLimit                                                            *)
(***************************************************************************)
MaxLimit == 10000

extractLimit(params) ==
    LET limitStr == Get(params, "limit")
        limit == parseInt(limitStr)
    IN IF limitStr # Undefined
       THEN IF IsNaN(limit) \/ limit.n <= 0
            THEN ValidationError(
                "Invalid limit value, must be a number between 1 and 10000 inclusive")
            ELSE IF limit.n > MaxLimit THEN Return(Num(MaxLimit))
            ELSE Return(limit)
       ELSE Return(Undefined)

(***************************************************************************)
(* The other extractors                                                    *)
(***************************************************************************)
\* A JSON number: an optional "-" and digits without a leading zero.
IsJsonNumber(s) ==
    LET body == IF s # <<>> /\ Head(s) = "-" THEN Tail(s) ELSE s
    IN /\ body # <<>>
       /\ \A i \in 1..Len(body) : IsDigit(body[i])
       /\ (Len(body) = 1 \/ body[1] # "0")

\* JSON.parse(v).  Of the strings written character by character (digits,
\* signs, commas, letters of identifiers) only the numbers are JSON texts.
JSONparse(v) ==
    IF IsJsonText(v) THEN Return(v.json)
    ELSE IF IsJsonNumber(v.s) THEN Return(Num(NumeralValue(v.s)))
    ELSE Throw("SyntaxError", "Unexpected token in JSON")

\* { ...v }: an object is copied, a number has no own properties.
Spread(v) == IF v.t = "object" THEN v ELSE EmptyObject

\* v.key
Prop(v, key) == IF v.t = "object" THEN Get(v.o, key) ELSE Undefined

extractIntersects(params) ==
    LET intersects == Get(params, "intersects")
        parsed == JSONparse(intersects)
        geojson == IF IsString(intersects) THEN parsed.val ELSE Spread(intersects)
    IN IF Truthy(intersects)
       THEN IF IsString(intersects) /\ Threw(parsed)
            THEN ValidationError("Invalid GeoJSON geometry")
            ELSE IF Prop(geojson, "type") \in {Str(<<"FeatureCollection">>),
                                               Str(<<"Feature">>)}
            THEN Throw("Error",
                       "Expected GeoJSON geometry, not Feature or FeatureCollection")
            ELSE Return(geojson)
       ELSE Return(Undefined)

extractPage(params) ==
    LET pageStr == Get(params, "page")
        page == parseInt(pageStr)
    IN IF pageStr # Undefined
       THEN IF IsNaN(page) \/ page.n <= 0
            THEN ValidationError("Invalid page value, must be a number greater than 1")
            ELSE Return(page)
       ELSE Return(Undefined)

extractStacQuery(params) ==
    LET query == Get(params, "query")
    IN IF Truthy(query)
       THEN IF IsString(query) THEN JSONparse(query) ELSE Return(Spread(query))
       ELSE Return(Undefined)

SortRule(field, direction) == Obj([field |-> Str(field), direction |-> Str(<<direction>>)])

\* One token of a GET sortby string.
ParseSortRule(sortbyRule) ==
    IF sortbyRule # <<>> /\ Head(sortbyRule) = "-" THEN SortRule(Tail(sortbyRule), "desc")
    ELSE IF sortbyRule # <<>> /\ Head(sortbyRule) = "+" THEN SortRule(Tail(sortbyRule), "asc")
    ELSE SortRule(sortbyRule, "asc")

RECURSIVE MapParseSortRule(_)
MapParseSortRule(parts) ==
    IF parts = <<>> THEN <<>>
    ELSE <<ParseSortRule(Head(parts))>> \o MapParseSortRule(Tail(parts))

extractSortby(params) ==
    LET sortby == Get(params, "sortby")
    IN IF Truthy(sortby)
       THEN IF IsString(sortby) THEN Arr(MapParseSortRule(Split(sortby.s, ",")))
            ELSE Arr(sortby.a)
       ELSE Undefined

\* The keys of the objects stringified, in the order the code and the
\* requests write them.
PropertyOrder == <<"type", "geometry", "coordinates", "include", "exclude", "platform",
                   "field", "direction">>

\* JSON.stringify(v), as the sequence of its symbols.
RECURSIVE JSONstringify(_)
JSONstringify(v) ==
    CASE IsChars(v) -> <<"\"">> \o v.s \o <<"\"">>
      [] IsNumber(v) -> NumToChars(v.n)
      [] IsArray(v) ->
            <<"[">> \o Join([i \in 1..Len(v.a) |-> JSONstringify(v.a[i])], ",") \o <<"]">>
      [] v.t = "object" ->
            LET keys == SelectSeq(PropertyOrder, LAMBDA k : k \in DOMAIN v.o)
            IN <<"{">>
               \o Join([i \in 1..Len(keys) |->
                           <<"\"", keys[i], "\"", ":">> \o JSONstringify(v.o[keys[i]])], ",")
               \o <<"}">>
      [] OTHER -> <<"null">>

\* The characters of a string, also of one that holds a JSON text.
CharsOf(v) == IF IsJsonText(v) THEN JSONstringify(v.json) ELSE v.s

RECURSIVE IncludedFields(_)
IncludedFields(parts) ==
    IF parts = <<>> THEN <<>>
    ELSE IF Head(parts) = <<>> \/ Head(Head(parts)) # "-"
    THEN <<Str(Head(parts))>> \o IncludedFields(Tail(parts))
    ELSE IncludedFields(Tail(parts))

RECURSIVE ExcludedFields(_)
ExcludedFields(parts) ==
    IF parts = <<>> THEN <<>>
    ELSE IF Head(parts) # <<>> /\ Head(Head(parts)) = "-"
    THEN <<Str(Tail(Head(parts)))>> \o ExcludedFields(Tail(parts))
    ELSE ExcludedFields(Tail(parts))

\* extractFields without the branch of a fields parameter that is present
\* and empty.
extractFields_NoEmptyProjection(params) ==
    LET fields == Get(params, "fields")
    IN IF Truthy(fields)
       THEN IF IsString(fields)
            THEN Obj([include |-> Arr(IncludedFields(Split(CharsOf(fields), ","))),
                      exclude |-> Arr(ExcludedFields(Split(CharsOf(fields), ",")))])
            ELSE fields
       ELSE Undefined

extractFields(params) ==
    LET fields == Get(params, "fields")
    IN IF Truthy(fields)
       THEN IF IsString(fields)
            THEN Obj([include |-> Arr(IncludedFields(Split(CharsOf(fields), ","))),
                      exclude |-> Arr(ExcludedFields(Split(CharsOf(fields), ",")))])
            ELSE fields
       ELSE IF "fields" \in DOMAIN params THEN EmptyObject
       ELSE Undefined

\* extractIds and extractCollectionIds are the same routine on two keys.
ExtractIdList(params, key) ==
    LET ids == Get(params, key)
    IN IF Truthy(ids)
       THEN IF IsString(ids)
            THEN IF Returned(JSONparse(ids)) THEN JSONparse(ids).val
                 ELSE Arr(AsStrings(Split(ids.s, ",")))
            ELSE Arr(ids.a)
       ELSE Undefined

extractIds(params) == ExtractIdList(params, "ids")
extractCollectionIds(params) == ExtractIdList(params, "collections")

(***************************************************************************)
(* Links, pagination and response assembly                                 *)
(***************************************************************************)
\* String(v), as template literals and Array.prototype.join apply it.
ToChars(v) ==
    CASE IsChars(v) -> v.s
      [] IsNumber(v) -> NumToChars(v.n)
      [] OTHER -> <<v.t>>

Link3(rel, type, href) == Obj([rel |-> Str(<<rel>>), type |-> Str(<<type>>), href |-> Str(href)])

\* addItemLinks on one record.  A record without a links list gets the new
\* links in a list that is never stored back into it.
AddItemLinksTo(result, endpoint) ==
    LET id == ToChars(Prop(result, "id"))
        collection == ToChars(Prop(result, "collection"))
        self == Link3("self", "application/geo+json",
                      endpoint \o <<"/collections/">> \o collection \o <<"/items/">> \o id)
        parent == Link3("parent", "application/json",
                        endpoint \o <<"/collections/">> \o collection)
        coll == Link3("collection", "application/json",
                      endpoint \o <<"/collections/">> \o collection)
        root == Link3("root", "application/geo+json", endpoint)
        thumbnail == Obj([rel |-> Str(<<"thumbnail">>),
                          href |-> Str(endpoint \o <<"/collections/">> \o collection
                                       \o <<"/items/">> \o id \o <<"/thumbnail">>)])
        typed == assign(result.o, [type |-> Str(<<"Feature">>)])
    IN IF Prop(result, "links") = Undefined
       THEN Obj(typed)
       ELSE Obj(assign(typed,
                [links |-> Arr(<<self>> \o result.o.links.a
                               \o <<parent, coll, root, thumbnail>>)]))

RECURSIVE addItemLinks(_, _)
addItemLinks(results, endpoint) ==
    IF results = <<>> THEN <<>>
    ELSE <<AddItemLinksTo(Head(results), endpoint)>> \o addItemLinks(Tail(results), endpoint)

wrapResponseInFeatureCollection(context, features, links) ==
    Obj([type |-> Str(<<"FeatureCollection">>),
         stac_version |-> Str(<<"1.0.0">>),
         stac_extensions |-> Arr(<<>>),
         context |-> context,
         numberMatched |-> Prop(context, "matched"),
         numberReturned |-> Prop(context, "returned"),
         features |-> Arr(features),
         links |-> Arr(links)])

\* getNested(obj, path): lodash get, the path given as its keys.
RECURSIVE getNested(_, _)
getNested(v, path) ==
    IF path = <<>> THEN v
    ELSE IF v.t = "object" /\ Head(path) \in DOMAIN v.o
    THEN getNested(v.o[Head(path)], Tail(path))
    ELSE Undefined

\* Object.keys of an array: its indices, as strings.
ObjectKeysOfArray(a) == [i \in 1..Len(a) |-> <<DigitChars[i]>>]

DefaultNextKeys == <<<<"properties", "datetime">>, <<"id">>, <<"collection">>>>

\* values.join(','): undefined is written as the empty string.
RECURSIVE JoinValues(_, _)
JoinValues(values, sep) ==
    LET one(v) == IF v = Undefined THEN <<>> ELSE ToChars(v)
    IN IF values = <<>> THEN <<>>
       ELSE IF Len(values) = 1 THEN one(values[1])
       ELSE one(values[1]) \o <<sep>> \o JoinValues(Tail(values), sep)

\* encodeURIComponent of one symbol: the separators are escaped, letters,
\* digits, "-" and "." are kept.
EncodeSymbol(c) ==
    CASE c = "," -> "%2C"
      [] c = "/" -> "%2F"
      [] c = ":" -> "%3A"
      [] c = "+" -> "%2B"
      [] c = "#" -> "%23"
      [] OTHER -> c

RECURSIVE EncodeChars(_)
EncodeChars(s) ==
    IF s = <<>> THEN <<>> ELSE <<EncodeSymbol(Head(s))>> \o EncodeChars(Tail(s))

\* encodeURIComponent(v) of a string; the escaped JSON text of a value is
\* kept as that value.
encodeURIComponent(v) ==
    IF IsJsonText(v) THEN [t |-> "string", uriJson |-> v.json]
    ELSE Str(EncodeChars(v.s))

RECURSIVE SortbyToFields(_)
SortbyToFields(rules) ==
    IF rules = <<>> THEN <<>>
    ELSE <<IF Prop(Head(rules), "direction") = Str(<<"asc">>)
           THEN Prop(Head(rules), "field")
           ELSE Str(<<"-">> \o ToChars(Prop(Head(rules), "field")))>>
         \o SortbyToFields(Tail(rules))

\* The value of one parameter as dictToURI writes it before escaping.
QueryValue(p, value) ==
    IF value.t \in {"object", "array"}
    THEN IF p = "sortby" THEN Str(JoinValues(SortbyToFields(value.a), ","))
         ELSE IF p = "collections" THEN Str(JoinValues(value.a, ","))
         ELSE JsonText(value)
    ELSE IF IsString(value) THEN value
    ELSE Str(ToChars(value))

\* dictToURI(dict): the key=value pairs of the query string, each value
\* escaped; the order of the pairs is not kept.
dictToURI(dict) == [p \in DOMAIN dict |-> encodeURIComponent(QueryValue(p, dict[p]))]

\* NextCursor reading the first item of the page.
NextCursor_FirstItem(sortby, items) ==
    LET firstItem == items[1]
        nextKeys == IF Truthy(sortby) THEN ObjectKeysOfArray(sortby.a)
                    ELSE DefaultNextKeys
    IN Str(JoinValues([i \in 1..Len(nextKeys) |-> getNested(firstItem, nextKeys[i])], ","))

\* The cursor of the next page.
NextCursor(sortby, items) ==
    LET lastItem == items[Len(items)]
        nextKeys == IF Truthy(sortby) THEN ObjectKeysOfArray(sortby.a)
                    ELSE DefaultNextKeys
    IN Str(JoinValues([i \in 1..Len(nextKeys) |-> getNested(lastItem, nextKeys[i])], ","))

\* The parameters of the next request; assign stores them in `parameters`.
AssignNextParams(limit, parameters, bbox, intersects, sortby, items) ==
    assign(parameters, [bbox |-> bbox, intersects |-> intersects, limit |-> limit,
                        next |-> NextCursor(sortby, items)])

\* AssignedObjects for a `parameters` that is the caller's own mapping.
AssignedObjects_Aliased(limit, parameters, caller, bbox, intersects, sortby, items) ==
    [parameters |-> AssignNextParams(limit, parameters, bbox, intersects, sortby, items),
     caller |-> AssignNextParams(limit, caller, bbox, intersects, sortby, items)]

\* The two mappings after the assign: it writes in place to `parameters`,
\* the mapping searchItems made with pickBy, and the caller's queryParameters
\* is another object.
AssignedObjects(limit, parameters, caller, bbox, intersects, sortby, items) ==
    [parameters |-> AssignNextParams(limit, parameters, bbox, intersects, sortby, items),
     caller |-> caller]

buildPaginationLinks(limit, parameters, bbox, intersects, endpoint, method, sortby, items) ==
    LET nextParams == pickBy(AssignNextParams(limit, parameters, bbox, intersects,
                                              sortby, items))
        link == [rel |-> Str(<<"next">>), title |-> Str(<<"Next page of Items">>),
                 method |-> Str(<<method>>)]
    IN IF Len(items) # 0
       THEN IF method = "GET"
            THEN <<Obj(assign(link, [href |-> Obj([endpoint |-> Str(endpoint),
                                                   query |-> Obj(dictToURI(nextParams))])]))>>
            ELSE IF method = "POST"
            THEN <<Obj(assign(link, [href |-> Str(endpoint), merge |-> False,
                                     body |-> Obj(nextParams)]))>>
            ELSE <<Obj(link)>>
       ELSE <<>>

(***************************************************************************)
(* searchItems                                                             *)
(***************************************************************************)
\* The first error thrown by a sequence of calls, if any.
RECURSIVE FirstThrow(_)
FirstThrow(results) ==
    IF results = <<>> THEN Return(Undefined)
    ELSE IF Threw(Head(results)) THEN Head(results)
    ELSE FirstThrow(Tail(results))

\* SearchItemsValidation without the check of the page.
SearchItemsValidation_NoPageCheck(params, method) ==
    IF Truthy(Get(params, "bbox")) /\ Truthy(Get(params, "intersects"))
    THEN ValidationError("Expected bbox OR intersects, not both")
    ELSE FirstThrow(<<extractDatetime(params), extractBbox(params, method),
                      extractIntersects(params), extractStacQuery(params),
                      extractLimit(params)>>)

\* SearchItemsValidation with the bbox/intersects check made after the
\* extraction of the datetime.
SearchItemsValidation_DatetimeFirst(params, method) ==
    IF Threw(extractDatetime(params)) THEN extractDatetime(params)
    ELSE IF Truthy(Get(params, "bbox")) /\ Truthy(Get(params, "intersects"))
    THEN ValidationError("Expected bbox OR intersects, not both")
    ELSE FirstThrow(<<extractBbox(params, method),
                      extractIntersects(params), extractStacQuery(params),
                      extractLimit(params), extractPage(params)>>)

\* searchItems up to the backend call: the error it throws, if any.  The
\* extractors that cannot throw (sortby, fields, ids, collections) are left
\* out of the sequence.
SearchItemsValidation(params, method) ==
    IF Truthy(Get(params, "bbox")) /\ Truthy(Get(params, "intersects"))
    THEN ValidationError("Expected bbox OR intersects, not both")
    ELSE FirstThrow(<<extractDatetime(params), extractBbox(params, method),
                      extractIntersects(params), extractStacQuery(params),
                      extractLimit(params), extractPage(params)>>)

\* intersectsGeometry || bboxGeometry
GeometryOf(params, method) ==
    IF Truthy(extractIntersects(params).val) THEN extractIntersects(params).val
    ELSE extractBbox(params, method).val

\* The query searchItems hands to backend.search.
SearchParamsOf(params, method, collId) ==
    LET picked == pickBy([datetime |-> extractDatetime(params).val,
                          intersects |-> GeometryOf(params, method),
                          query |-> extractStacQuery(params).val,
                          sortby |-> extractSortby(params),
                          fields |-> extractFields(params),
                          ids |-> extractIds(params),
                          collections |-> extractCollectionIds(params),
                          next |-> Get(params, "next")])
    IN IF Truthy(collId) THEN assign(picked, [collections |-> Arr(<<collId>>)])
       ELSE picked

NewEndpoint(endpoint, collId) ==
    IF Truthy(collId) THEN endpoint \o <<"/collections/">> \o ToChars(collId) \o <<"/items">>
    ELSE endpoint \o <<"/search">>

\* backend.search's answer as searchItems sees it after the try/catch.
isIndexNotFoundError(error) == error.indexNotFound

EmptySearchResponse(limit) ==
    [context |-> Obj([matched |-> Num(0), returned |-> Num(0), limit |-> limit]),
     results |-> <<>>]

\* searchItems from the backend's answer on.
SearchItemsResponse(params, method, collId, parameters, endpoint, esResponse) ==
    LET responseItems == esResponse.results
        paginationLinks ==
            buildPaginationLinks(extractLimit(params).val, parameters, Get(params, "bbox"),
                                 Get(params, "intersects"), NewEndpoint(endpoint, collId),
                                 method, extractSortby(params), responseItems)
        links == IF Truthy(collId)
                 THEN paginationLinks
                      \o <<Link3("self", "application/json", NewEndpoint(endpoint, collId)),
                           Link3("root", "application/geo+json", endpoint)>>
                 ELSE paginationLinks
        items == addItemLinks(responseItems, endpoint)
    IN Return(wrapResponseInFeatureCollection(esResponse.context, items, links))

\* SearchItemsCatch without the index-missing case.
SearchItemsCatch_Rethrow(params, method, collId, parameters, endpoint, error) == error

\* SearchItemsCatch answering every failure as a missing index.
SearchItemsCatch_Swallow(params, method, collId, parameters, endpoint, error) ==
    SearchItemsResponse(params, method, collId, parameters, endpoint,
                        EmptySearchResponse(extractLimit(params).val))

\* searchItems after a failed backend call.
SearchItemsCatch(params, method, collId, parameters, endpoint, error) ==
    IF isIndexNotFoundError(error)
    THEN SearchItemsResponse(params, method, collId, parameters, endpoint,
                             EmptySearchResponse(extractLimit(params).val))
    ELSE error

(***************************************************************************)
(* getItem                                                                 *)
(***************************************************************************)
\* The query getItem hands to backend.search.
ItemQuery(collId, itemId) == [collections |-> Arr(<<collId>>), id |-> itemId]

\* getItem from the backend's answer on: the first decorated record, or the
\* error it returns (not throws) when there is none.
GetItemResponse(endpoint, esResponse) ==
    LET decorated == addItemLinks(esResponse.results, endpoint)
    IN IF decorated # <<>> THEN Return(decorated[1])
       ELSE Return([t |-> "Error", message |-> "Item not found"])

(***************************************************************************)
(* aggregate                                                               *)
(***************************************************************************)
AggregateValidation(params, method) ==
    IF Truthy(Get(params, "bbox")) /\ Truthy(Get(params, "intersects"))
    THEN ValidationError("Expected bbox OR intersects, not both")
    ELSE FirstThrow(<<extractDatetime(params), extractBbox(params, method),
                      extractIntersects(params), extractStacQuery(params)>>)

AggregateParamsOf(params, method) ==
    pickBy([datetime |-> extractDatetime(params).val,
            intersects |-> GeometryOf(params, method),
            query |-> extractStacQuery(params).val,
            ids |-> extractIds(params),
            collections |-> extractCollectionIds(params)])

\* a || b
OrElse(a, b) == IF Truthy(a) THEN a ELSE b

AggBucket(bucket, dataType) ==
    Obj([key |-> OrElse(Prop(bucket, "key_as_string"), Prop(bucket, "key")),
         data_type |-> Str(<<dataType>>),
         frequency |-> Prop(bucket, "doc_count"),
         to |-> Prop(bucket, "to"),
         from |-> Prop(bucket, "from")])

agg(esAggs, name, dataType) ==
    LET buckets == Prop(Prop(esAggs, name), "buckets").a
    IN Obj([name |-> Str(<<name>>),
            data_type |-> Str(<<"frequency_distribution">>),
            overflow |-> OrElse(Prop(Prop(esAggs, name), "sum_other_doc_count"), Num(0)),
            buckets |-> Arr([i \in 1..Len(buckets) |-> AggBucket(buckets[i], dataType)])])

MetricNames == <<"total_count", "datetime_max", "datetime_min">>

FrequencyAggs ==
    <<<<"collection_frequency", "string">>, <<"datetime_frequency", "datetime">>,
      <<"cloud_cover_frequency", "numeric">>, <<"grid_code_frequency", "string">>,
      <<"platform_frequency", "string">>, <<"grid_code_landsat_frequency", "string">>,
      <<"sun_elevation_frequency", "string">>, <<"sun_azimuth_frequency", "string">>,
      <<"off_nadir_frequency", "string">>>>

Metric(name, dataType, value) ==
    Obj([name |-> Str(<<name>>), data_type |-> Str(<<dataType>>), value |-> value])

\* aggregate from the backend's answer on.  Reading a property of undefined
\* throws a TypeError.
AggregateResponse(endpoint, esResponse) ==
    LET body == Prop(esResponse, "body")
        esAggs == Prop(body, "aggregations")
    IN IF body = Undefined
       THEN Throw("TypeError", "Cannot destructure property 'aggregations' of 'body'")
       ELSE IF \/ esAggs = Undefined
               \/ \E i \in 1..Len(MetricNames) : Prop(esAggs, MetricNames[i]) = Undefined
               \/ \E i \in 1..Len(FrequencyAggs) :
                      Prop(Prop(esAggs, FrequencyAggs[i][1]), "buckets") = Undefined
       THEN Throw("TypeError", "Cannot read properties of undefined")
       ELSE Return(Obj([
           aggregations |-> Arr(
               <<Metric("total_count", "integer",
                        Prop(Prop(esAggs, "total_count"), "value")),
                 Metric("datetime_max", "datetime",
                        Prop(Prop(esAggs, "datetime_max"), "value_as_string")),
                 Metric("datetime_min", "datetime",
                        Prop(Prop(esAggs, "datetime_min"), "value_as_string"))>>
               \o [i \in 1..Len(FrequencyAggs) |->
                       agg(esAggs, FrequencyAggs[i][1], FrequencyAggs[i][2])]),
           links |-> Arr(<<Link3("self", "application/json", endpoint \o <<"/aggregate">>),
                           Link3("root", "application/geo+json", endpoint)>>)]))

\* aggregate after a failed backend call.
AggregateCatch(endpoint, error) ==
    IF isIndexNotFoundError(error) THEN AggregateResponse(endpoint, EmptyObject)
    ELSE error

(***************************************************************************)
(* Strings of bounded length over an alphabet                              *)
(***************************************************************************)
SeqsUpTo(S, n) == UNION {[1..k -> S] : k \in 0..n}

\* The characters limit strings are drawn from; "a" stands for any
\* character that is neither a digit nor a sign.
LimitChars == {"0", "1", "9", "-", "a"}
MaxLimitLen == 5
LimitNumbers == {-1, 0, 1, 9999, 10000, 10001, 12345}

(***************************************************************************)
(* extractLimit on its own                                                 *)
(***************************************************************************)
InitLimit ==
    /\ pc = "start"
    /\ fn = "extractLimit"
    /\ \/ queryParameters = <<>>
       \/ \E n \in 0..MaxLimitLen : \E s \in [1..n -> LimitChars] :
              queryParameters = [k \in {"limit"} |-> Str(s)]
       \/ \E n \in LimitNumbers : queryParameters = [k \in {"limit"} |-> Num(n)]
    /\ httpMethod = "GET"
    /\ collectionId = Undefined
    /\ searchParams = <<>>
    /\ backendCalls = 0
    /\ backendResult = NoOutcome
    /\ outcome = NoOutcome

CallExtractLimit ==
    /\ pc = "start"
    /\ fn = "extractLimit"
    /\ outcome' = extractLimit(queryParameters)
    /\ pc' = "done"
    /\ UNCHANGED <<fn, queryParameters, httpMethod, collectionId, searchParams,
                   backendCalls, backendResult>>

SpecLimit == InitLimit /\ [][CallExtractLimit]_vars

(***************************************************************************)
(* extractBbox on its own                                                  *)
(***************************************************************************)
\* The components a GET bbox string is made of: numerals, a component that
\* is not a number, one that only starts with a numeral, an empty one.
BboxTokens == {<<"0">>, <<"1">>, <<"a">>, <<"1", "a">>, <<>>}
\* The elements of a POST bbox array.
BboxElements == {Num(0), Num(1), Str(<<"a">>), Str(<<"b">>)}
MaxBboxLen == 6

InitBbox ==
    /\ pc = "start"
    /\ fn = "extractBbox"
    /\ \/ queryParameters = <<>>
       \/ \E n \in 1..MaxBboxLen : \E parts \in [1..n -> BboxTokens] :
              queryParameters = [k \in {"bbox"} |-> Str(Join(parts, ","))]
       \/ \E n \in 0..MaxBboxLen : \E a \in [1..n -> BboxElements] :
              queryParameters = [k \in {"bbox"} |-> Arr(a)]
    /\ httpMethod \in {"GET", "POST"}
    /\ collectionId = Undefined
    /\ searchParams = <<>>
    /\ backendCalls = 0
    /\ backendResult = NoOutcome
    /\ outcome = NoOutcome

CallExtractBbox ==
    /\ pc = "start"
    /\ fn = "extractBbox"
    /\ outcome' = extractBbox(queryParameters, httpMethod)
    /\ pc' = "done"
    /\ UNCHANGED <<fn, queryParameters, httpMethod, collectionId, searchParams,
                   backendCalls, backendResult>>

SpecBbox == InitBbox /\ [][CallExtractBbox]_vars

(***************************************************************************)
(* extractDatetime on its own                                              *)
(***************************************************************************)
DatetimeSymbols == {"/", ".", "#", "T1", "T2", "t1", "D32"}
MaxDatetimeLen == 5

InitDatetime ==
    /\ pc = "start"
    /\ fn = "extractDatetime"
    /\ \/ queryParameters = <<>>
       \/ \E n \in 0..MaxDatetimeLen : \E s \in [1..n -> DatetimeSymbols] :
              queryParameters = [k \in {"datetime"} |-> Str(s)]
    /\ httpMethod = "GET"
    /\ collectionId = Undefined
    /\ searchParams = <<>>
    /\ backendCalls = 0
    /\ backendResult = NoOutcome
    /\ outcome = NoOutcome

CallExtractDatetime ==
    /\ pc = "start"
    /\ fn = "extractDatetime"
    /\ outcome' = extractDatetime(queryParameters)
    /\ pc' = "done"
    /\ UNCHANGED <<fn, queryParameters, httpMethod, collectionId, searchParams,
                   backendCalls, backendResult>>

SpecDatetime == InitDatetime /\ [][CallExtractDatetime]_vars

(***************************************************************************)
(* extractIds and extractCollectionIds on their own                        *)
(***************************************************************************)
IdChars == {"0", "1", "a", ","}
MaxIdsLen == 3
IdTokens == {Str(<<"a">>), Str(<<"1">>)}
MaxIdList == 2

InitIds ==
    /\ pc = "start"
    /\ fn \in {"extractIds", "extractCollectionIds"}
    /\ LET key == IF fn = "extractIds" THEN "ids" ELSE "collections"
       IN \/ queryParameters = <<>>
          \/ \E n \in 0..MaxIdsLen : \E s \in [1..n -> IdChars] :
                 queryParameters = [k \in {key} |-> Str(s)]
          \/ \E n \in 0..MaxIdList : \E a \in [1..n -> IdTokens] :
                 \/ queryParameters = [k \in {key} |-> JsonText(Arr(a))]
                 \/ queryParameters = [k \in {key} |-> Arr(a)]
    /\ httpMethod = "GET"
    /\ collectionId = Undefined
    /\ searchParams = <<>>
    /\ backendCalls = 0
    /\ backendResult = NoOutcome
    /\ outcome = NoOutcome

CallExtractIds ==
    /\ pc = "start"
    /\ fn = "extractIds"
    /\ outcome' = Return(extractIds(queryParameters))
    /\ pc' = "done"
    /\ UNCHANGED <<fn, queryParameters, httpMethod, collectionId, searchParams,
                   backendCalls, backendResult>>

CallExtractCollectionIds ==
    /\ pc = "start"
    /\ fn = "extractCollectionIds"
    /\ outcome' = Return(extractCollectionIds(queryParameters))
    /\ pc' = "done"
    /\ UNCHANGED <<fn, queryParameters, httpMethod, collectionId, searchParams,
                   backendCalls, backendResult>>

NextIds == CallExtractIds \/ CallExtractCollectionIds

SpecIds == InitIds /\ [][NextIds]_vars

(***************************************************************************)
(* Requests, backend answers and the two handlers                          *)
(***************************************************************************)
Endpoint == <<"http://api">>

PointGeometry == Obj([type |-> Str(<<"Point">>), coordinates |-> Arr(<<Num(0), Num(0)>>)])
FeatureGeometry == Obj([type |-> Str(<<"Feature">>), geometry |-> PointGeometry])

ParamKeys == {"datetime", "bbox", "intersects", "limit", "page", "sortby", "query",
              "fields", "ids", "collections", "next"}

\* The values a request gives to each parameter: valid ones in both request
\* forms and invalid ones of each kind.
ParamValues(k) ==
    CASE k = "datetime" -> {Str(<<"T1", "/", ".", ".">>), Str(<<"T2", "/", "T1">>)}
      [] k = "bbox" -> {Str(<<"0", ",", "0", ",", "1", ",", "1">>),
                        Str(<<"0", ",", "1", ",", "1", ",", "0">>),
                        Arr(<<Num(0), Num(0), Num(1), Num(1)>>)}
      [] k = "intersects" -> {PointGeometry, JsonText(PointGeometry), FeatureGeometry,
                              Str(<<"#">>)}
      [] k = "limit" -> {Str(<<"2">>), Str(<<"0">>)}
      [] k = "page" -> {Str(<<"1">>), Str(<<"a">>)}
      [] k = "sortby" -> {Str(<<"id">>), Str(<<"-", "id", ",", "collection">>),
                          Arr(<<SortRule(<<"id">>, "asc")>>)}
      [] k = "query" -> {Obj([platform |-> Str(<<"landsat">>)]),
                         JsonText(Obj([platform |-> Str(<<"landsat">>)])), Str(<<"#">>)}
      [] k = "fields" -> {Str(<<"id", ",", "-", "links">>),
                          Str(<<"a", ",", "b", ",", "-", "c">>), Str(<<>>)}
      [] k = "ids" -> {Str(<<"a", ",", "b">>)}
      [] k = "collections" -> {Arr(<<Str(<<"c1">>)>>)}
      [] k = "next" -> {Str(<<"T1", ",", "7", ",", "c2">>)}

MaxParams == 3

\* The mappings that give a value to every key of D.
RECURSIVE ParamMaps(_)
ParamMaps(D) ==
    IF D = {} THEN {<<>>}
    ELSE LET k == CHOOSE x \in D : TRUE
         IN {assign(m, [x \in {k} |-> v]) : m \in ParamMaps(D \ {k}), v \in ParamValues(k)}

Requests ==
    UNION {ParamMaps(D) : D \in {S \in SUBSET ParamKeys : Cardinality(S) <= MaxParams}}

\* The items the backend returns.
ItemA == Obj([id |-> Str(<<"4", "2">>), collection |-> Str(<<"c1">>),
              properties |-> Obj([datetime |-> Str(<<"T1">>)]), links |-> Arr(<<>>)])
ItemB == Obj([id |-> Str(<<"7">>), collection |-> Str(<<"c2">>),
              properties |-> Obj([datetime |-> Str(<<"T2">>)])])
MaxItems == 2
ResultPages == SeqsUpTo({ItemA, ItemB}, MaxItems)

BackendError(message, indexNotFound) ==
    [kind |-> "throw", name |-> "ResponseError", message |-> message,
     indexNotFound |-> indexNotFound]
BackendErrors == {BackendError("index_not_found_exception", TRUE),
                  BackendError("timeout", FALSE)}

Bucket == Obj([key |-> Str(<<"c1">>), doc_count |-> Num(2)])
RangeBucket == Obj([key |-> Num(1), key_as_string |-> Str(<<"T1">>), doc_count |-> Num(1),
                    from |-> Num(0), to |-> Num(1)])
BucketLists == {<<>>, <<Bucket>>, <<RangeBucket, Bucket>>}

\* An answer of backend.aggregate that has the aggregations named in `names`.
AggregateBody(names, count, buckets) ==
    Obj([body |-> Obj([aggregations |-> Obj(
        [n \in names |->
            IF n = "total_count" THEN Obj([value |-> Num(count)])
            ELSE IF n \in {"datetime_max", "datetime_min"}
            THEN Obj([value_as_string |-> Str(<<"T1">>)])
            ELSE Obj([buckets |-> Arr(buckets), sum_other_doc_count |-> Num(0)])])])])

AggNames ==
    {MetricNames[i] : i \in 1..Len(MetricNames)}
        \cup {FrequencyAggs[i][1] : i \in 1..Len(FrequencyAggs)}

AggregateBodies ==
    {AggregateBody(AggNames, c, b) : c \in {0, 2}, b \in BucketLists}
        \cup {AggregateBody(AggNames \ {"off_nadir_frequency"}, 2, <<Bucket>>)}

ItemIds == {Str(<<"4", "2">>), Str(<<"7">>)}

Init ==
    /\ pc = "start"
    /\ fn \in {"searchItems", "aggregate", "getItem"}
    /\ queryParameters \in Requests
    /\ httpMethod \in {"GET", "POST"}
    /\ collectionId \in {Undefined, Str(<<"c1">>)}
    /\ (fn = "aggregate") => (collectionId = Undefined)
    /\ (fn = "getItem") =>
           (collectionId # Undefined /\ queryParameters = <<>> /\ httpMethod = "GET")
    /\ searchParams = <<>>
    /\ backendCalls = 0
    /\ backendResult = NoOutcome
    /\ outcome = NoOutcome

\* searchItems from its entry to the call of backend.search.
SearchItemsCall ==
    /\ pc = "start"
    /\ fn = "searchItems"
    /\ LET v == SearchItemsValidation(queryParameters, httpMethod)
       IN IF Threw(v)
          THEN /\ outcome' = v
               /\ pc' = "done"
               /\ UNCHANGED <<searchParams, backendCalls>>
          ELSE /\ searchParams' = SearchParamsOf(queryParameters, httpMethod, collectionId)
               /\ backendCalls' = backendCalls + 1
               /\ pc' = "calling"
               /\ UNCHANGED outcome
    /\ UNCHANGED <<fn, queryParameters, httpMethod, collectionId, backendResult>>

\* backend.search returns a page and searchItems runs to its end.
BackendSearchReturns ==
    /\ pc = "calling"
    /\ fn = "searchItems"
    /\ \E items \in ResultPages :
          LET limit == extractLimit(queryParameters).val
              esResponse == [results |-> items,
                             context |-> Obj([matched |-> Num(Len(items)),
                                              returned |-> Num(Len(items)),
                                              limit |-> limit])]
          IN /\ backendResult' = Return(esResponse)
             /\ outcome' = SearchItemsResponse(queryParameters, httpMethod, collectionId,
                                               searchParams, Endpoint, esResponse)
             /\ LET assigned == AssignedObjects(limit, searchParams, queryParameters,
                                                Get(queryParameters, "bbox"),
                                                Get(queryParameters, "intersects"),
                                                extractSortby(queryParameters), items)
                IN IF Len(items) # 0
                   THEN /\ searchParams' = assigned.parameters
                        /\ queryParameters' = assigned.caller
                   ELSE UNCHANGED <<searchParams, queryParameters>>
    /\ pc' = "done"
    /\ UNCHANGED <<fn, httpMethod, collectionId, backendCalls>>

\* backend.search fails and searchItems runs to its end.
BackendSearchFails ==
    /\ pc = "calling"
    /\ fn = "searchItems"
    /\ \E error \in BackendErrors :
          /\ backendResult' = error
          /\ outcome' = SearchItemsCatch(queryParameters, httpMethod, collectionId,
                                         searchParams, Endpoint, error)
    /\ pc' = "done"
    /\ UNCHANGED <<fn, queryParameters, httpMethod, collectionId, searchParams,
                   backendCalls>>

\* aggregate from its entry to the call of backend.aggregate.
AggregateCall ==
    /\ pc = "start"
    /\ fn = "aggregate"
    /\ LET v == AggregateValidation(queryParameters, httpMethod)
       IN IF Threw(v)
          THEN /\ outcome' = v
               /\ pc' = "done"
               /\ UNCHANGED <<searchParams, backendCalls>>
          ELSE /\ searchParams' = AggregateParamsOf(queryParameters, httpMethod)
               /\ backendCalls' = backendCalls + 1
               /\ pc' = "calling"
               /\ UNCHANGED outcome
    /\ UNCHANGED <<fn, queryParameters, httpMethod, collectionId, backendResult>>

\* backend.aggregate returns and aggregate runs to its end.
BackendAggregateReturns ==
    /\ pc = "calling"
    /\ fn = "aggregate"
    /\ \E esResponse \in AggregateBodies :
          /\ backendResult' = Return(esResponse)
          /\ outcome' = AggregateResponse(Endpoint, esResponse)
    /\ pc' = "done"
    /\ UNCHANGED <<fn, queryParameters, httpMethod, collectionId, searchParams,
                   backendCalls>>

\* backend.aggregate fails and aggregate runs to its end.
BackendAggregateFails ==
    /\ pc = "calling"
    /\ fn = "aggregate"
    /\ \E error \in BackendErrors :
          /\ backendResult' = error
          /\ outcome' = AggregateCatch(Endpoint, error)
    /\ pc' = "done"
    /\ UNCHANGED <<fn, queryParameters, httpMethod, collectionId, searchParams,
                   backendCalls>>

\* getItem from its entry to the call of backend.search.
GetItemCall ==
    /\ pc = "start"
    /\ fn = "getItem"
    /\ \E itemId \in ItemIds : searchParams' = ItemQuery(collectionId, itemId)
    /\ backendCalls' = backendCalls + 1
    /\ pc' = "calling"
    /\ UNCHANGED <<fn, queryParameters, httpMethod, collectionId, backendResult, outcome>>

\* backend.search returns and getItem runs to its end.
BackendGetItemReturns ==
    /\ pc = "calling"
    /\ fn = "getItem"
    /\ \E items \in ResultPages :
          LET esResponse == [results |-> items,
                             context |-> Obj([matched |-> Num(Len(items)),
                                              returned |-> Num(Len(items)),
                                              limit |-> Undefined])]
          IN /\ backendResult' = Return(esResponse)
             /\ outcome' = GetItemResponse(Endpoint, esResponse)
    /\ pc' = "done"
    /\ UNCHANGED <<fn, queryParameters, httpMethod, collectionId, searchParams,
                   backendCalls>>

\* backend.search fails: getItem has no handler and the error is thrown on.
BackendGetItemFails ==
    /\ pc = "calling"
    /\ fn = "getItem"
    /\ \E error \in BackendErrors :
          /\ backendResult' = error
          /\ outcome' = error
    /\ pc' = "done"
    /\ UNCHANGED <<fn, queryParameters, httpMethod, collectionId, searchParams,
                   backendCalls>>

Next ==
    \/ SearchItemsCall
    \/ BackendSearchReturns
    \/ BackendSearchFails
    \/ AggregateCall
    \/ BackendAggregateReturns
    \/ BackendAggregateFails
    \/ GetItemCall
    \/ BackendGetItemReturns
    \/ BackendGetItemFails

Spec == Init /\ [][Next]_vars

(***************************************************************************)
(* Claims                                                                  *)
(***************************************************************************)

LimitIsNumeric(l) == IsNumber(l) \/ (IsChars(l) /\ IsNumeral(l.s))
LimitValue(l) == IF IsNumber(l) THEN l.n ELSE NumeralValue(l.s)

\* C7: extractLimit returns exactly 10000 for a supplied limit above 10000,
\* fails with a validation error for a limit that is <= 0 or not numeric,
\* returns only integers in 1..10000, and returns no limit when none is given.
C7_LimitContract ==
    (fn = "extractLimit" /\ pc = "done") =>
        LET l == Get(queryParameters, "limit")
        IN /\ (l = Undefined) => (outcome = Return(Undefined))
           /\ (l # Undefined /\ LimitIsNumeric(l) /\ LimitValue(l) > 10000)
                  => (outcome = Return(Num(10000)))
           /\ (l # Undefined /\ (~LimitIsNumeric(l) \/ LimitValue(l) <= 0))
                  => ThrewValidation(outcome)
           /\ (Returned(outcome) /\ outcome.val # Undefined)
                  => (IsNumber(outcome.val) /\ outcome.val.n \in 1..10000)

\* What extractLimit does guarantee: the same contract with "not numeric" read
\* as "does not start with a numeral".
LimitOnNumerals ==
    (fn = "extractLimit" /\ pc = "done") =>
        LET l == Get(queryParameters, "limit")
        IN /\ (l = Undefined) => (outcome = Return(Undefined))
           /\ (l # Undefined /\ LimitIsNumeric(l) /\ LimitValue(l) > 10000)
                  => (outcome = Return(Num(10000)))
           /\ (l # Undefined /\ LimitIsNumeric(l) /\ LimitValue(l) <= 0)
                  => ThrewValidation(outcome)
           /\ (l # Undefined /\ parseInt(l) = NaN) => ThrewValidation(outcome)
           /\ (Returned(outcome) /\ outcome.val # Undefined)
                  => (IsNumber(outcome.val) /\ outcome.val.n \in 1..10000)

\* The components of a supplied bbox as the caller wrote them: the parts of
\* the comma-separated string, or the elements of the array.
BboxComponents(b) == IF IsArray(b) THEN b.a ELSE AsStrings(Split(b.s, ","))
ComponentIsNumeric(c) == IsNumber(c) \/ (IsChars(c) /\ IsNumeral(c.s))
ComponentValue(c) == IF IsNumber(c) THEN c.n ELSE NumeralValue(c.s)

\* A bbox in the form its method takes, with 4 or 6 components, all numeric.
BboxWellFormed(b, method) ==
    /\ (method = "GET" /\ IsString(b)) \/ (method = "POST" /\ IsArray(b))
    /\ Len(BboxComponents(b)) \in {4, 6}
    /\ \A i \in 1..Len(BboxComponents(b)) : ComponentIsNumeric(BboxComponents(b)[i])

IsClosedPolygon(g) ==
    /\ g.t = "object"
    /\ g.o.type = Str(<<"Polygon">>)
    /\ LET ring == g.o.coordinates.a[1].a
       IN Len(ring) >= 4 /\ ring[1] = ring[Len(ring)]

\* C8: extractBbox accepts a supplied bbox only when it has exactly 4 or 6
\* components and every component is numeric; every other supplied bbox, in
\* the GET string form or the POST array form, fails with a validation error.
C8_BboxShape ==
    (fn = "extractBbox" /\ pc = "done" /\ Truthy(Get(queryParameters, "bbox"))) =>
        LET b == Get(queryParameters, "bbox")
        IN /\ (Returned(outcome) => BboxWellFormed(b, httpMethod))
           /\ (~BboxWellFormed(b, httpMethod) => ThrewValidation(outcome))

\* C9: for a numeric bbox of 4 or 6 components extractBbox returns a closed
\* polygon when south <= north and fails with a validation error when
\* south > north; south and north are components 1 and 3 of a 4-component box
\* and components 1 and 4 of a 6-component box.
C9_BboxLatitudes ==
    (/\ fn = "extractBbox" /\ pc = "done"
     /\ Truthy(Get(queryParameters, "bbox"))
     /\ BboxWellFormed(Get(queryParameters, "bbox"), httpMethod)) =>
        LET c == BboxComponents(Get(queryParameters, "bbox"))
            south == ComponentValue(c[2])
            north == IF Len(c) = 4 THEN ComponentValue(c[4]) ELSE ComponentValue(c[5])
        IN IF south <= north
           THEN Returned(outcome) /\ IsClosedPolygon(outcome.val)
           ELSE ThrewValidation(outcome)

\* A 6-component box accepted although its component 1 exceeds its component 3.
C9_Witness ==
    /\ fn = "extractBbox" /\ pc = "done"
    /\ Truthy(Get(queryParameters, "bbox"))
    /\ BboxWellFormed(Get(queryParameters, "bbox"), httpMethod)
    /\ LET c == BboxComponents(Get(queryParameters, "bbox"))
       IN /\ Len(c) = 6
          /\ ComponentValue(c[2]) > ComponentValue(c[4])
          /\ ComponentValue(c[2]) = ComponentValue(c[5])
    /\ Returned(outcome) /\ IsClosedPolygon(outcome.val)

\* The two ends of a datetime as the caller wrote it: what precedes the
\* first "/" and what follows it (no end when there is no "/").
SlashCount(s) == Cardinality({i \in 1..Len(s) : s[i] = "/"})
FirstSlash(s) == CHOOSE i \in 1..Len(s) : s[i] = "/" /\ \A j \in 1..(i - 1) : s[j] # "/"
StartOf(s) == IF SlashCount(s) = 0 THEN s ELSE SubSeq(s, 1, FirstSlash(s) - 1)
EndOf(s) == IF SlashCount(s) = 0 THEN <<>> ELSE SubSeq(s, FirstSlash(s) + 1, Len(s))

\* An end is closed when it is written and is not the open marker "..".
EndIsClosed(e) == e # <<>> /\ e # <<".", ".">>
\* A valid RFC3339 timestamp, in either case, and its instant.
IsTimestamp(e) == e \in {<<"T1">>, <<"t1">>, <<"T2">>}
InstantOf(e) == IF e = <<"T2">> THEN 2 ELSE 1

DatetimeAcceptable(s) ==
    /\ SlashCount(s) <= 1
    /\ EndIsClosed(StartOf(s)) \/ EndIsClosed(EndOf(s))
    /\ EndIsClosed(StartOf(s)) => IsTimestamp(StartOf(s))
    /\ EndIsClosed(EndOf(s)) => IsTimestamp(EndOf(s))
    /\ (EndIsClosed(StartOf(s)) /\ EndIsClosed(EndOf(s)))
           => InstantOf(EndOf(s)) >= InstantOf(StartOf(s))

\* C10: extractDatetime accepts a supplied datetime exactly when it has at
\* most one "/", at least one end is closed, every closed end is a valid
\* RFC3339 timestamp and a closed end is not earlier than a closed start; it
\* returns the upper-cased text, and every rejection is a validation error.
C10_DatetimeAccepted ==
    (fn = "extractDatetime" /\ pc = "done" /\ Truthy(Get(queryParameters, "datetime"))) =>
        LET s == Get(queryParameters, "datetime").s
        IN IF DatetimeAcceptable(s)
           THEN outcome = Return(Str(toUpperCase(s)))
           ELSE ThrewValidation(outcome)

\* An interval with both ends closed and equal instants is accepted.
C10_Witness ==
    /\ fn = "extractDatetime" /\ pc = "done"
    /\ Get(queryParameters, "datetime") = Str(<<"t1", "/", "T1">>)
    /\ outcome = Return(Str(<<"T1", "/", "T1">>))

IsHandler == fn \in {"searchItems", "aggregate"}
BothSpatialFilters ==
    Truthy(Get(queryParameters, "bbox")) /\ Truthy(Get(queryParameters, "intersects"))

\* The validations a handler applies to the request.
RequestValidations ==
    IF fn = "searchItems"
    THEN {extractDatetime(queryParameters), extractBbox(queryParameters, httpMethod),
          extractIntersects(queryParameters), extractLimit(queryParameters),
          extractPage(queryParameters)}
    ELSE {extractDatetime(queryParameters), extractBbox(queryParameters, httpMethod),
          extractIntersects(queryParameters)}

\* C1: in searchItems and aggregate a request rejected with a validation error
\* has made no backend call, and the backend is called only for a request
\* that passes every validation.
C1_ValidationBeforeBackend ==
    IsHandler =>
        /\ ThrewValidation(outcome) => (backendCalls = 0 /\ backendResult = NoOutcome)
        /\ (backendCalls > 0) =>
               (~BothSpatialFilters /\ \A r \in RequestValidations : ~ThrewValidation(r))

\* A search rejected for its page, the last parameter validated.
C1_Witness ==
    /\ fn = "searchItems" /\ pc = "done"
    /\ outcome = ValidationError("Invalid page value, must be a number greater than 1")
    /\ backendCalls = 0

\* The links of the returned feature collection with rel "next".
IsNextLink(l) == Prop(l, "rel") = Str(<<"next">>)
NextLinks == SelectSeq(outcome.val.o.links.a, IsNextLink)

\* C2: when backend.search fails with the index-missing condition searchItems
\* returns a feature collection with no item, matched = returned = 0, the
\* requested limit and no next link; any other backend failure is thrown on
\* unchanged.
C2_IndexMissingSearch ==
    (fn = "searchItems" /\ pc = "done" /\ Threw(backendResult)) =>
        IF backendResult.indexNotFound
        THEN /\ Returned(outcome)
             /\ outcome.val.o.type = Str(<<"FeatureCollection">>)
             /\ outcome.val.o.features = Arr(<<>>)
             /\ outcome.val.o.numberMatched = Num(0)
             /\ outcome.val.o.numberReturned = Num(0)
             /\ outcome.val.o.context =
                    Obj([matched |-> Num(0), returned |-> Num(0),
                         limit |-> IF "limit" \in DOMAIN queryParameters
                                   THEN Num(NumeralValue(queryParameters.limit.s))
                                   ELSE Undefined])
             /\ NextLinks = <<>>
        ELSE outcome = backendResult

\* A collection-scoped search with a limit whose index is missing.
C2_Witness ==
    /\ fn = "searchItems" /\ pc = "done"
    /\ Threw(backendResult) /\ backendResult.indexNotFound
    /\ "limit" \in DOMAIN queryParameters
    /\ Truthy(collectionId)
    /\ Returned(outcome) /\ Len(outcome.val.o.links.a) = 2

\* C3: when backend.aggregate fails with the index-missing condition aggregate
\* completes with a result and raises no error.
C3_IndexMissingAggregate ==
    (fn = "aggregate" /\ pc = "done" /\ Threw(backendResult)
         /\ backendResult.indexNotFound) => Returned(outcome)

\* decodeURIComponent, as the receiver of a GET link applies it.
DecodeSymbol(c) ==
    CASE c = "%2C" -> ","
      [] c = "%2F" -> "/"
      [] c = "%3A" -> ":"
      [] c = "%2B" -> "+"
      [] c = "%23" -> "#"
      [] OTHER -> c
DecodeChars(s) == [i \in 1..Len(s) |-> DecodeSymbol(s[i])]

\* The cursor a next link carries: the "next" of its query string (GET) or of
\* its body (POST).
CursorOf(link) ==
    IF Prop(link, "method") = Str(<<"GET">>)
    THEN LET c == Prop(Prop(Prop(link, "href"), "query"), "next")
         IN IF c = Undefined THEN Undefined ELSE Str(DecodeChars(c.s))
    ELSE Prop(Prop(link, "body"), "next")

ReturnedPage == backendResult.val.results
LastItem == ReturnedPage[Len(ReturnedPage)]
SearchAnswered == fn = "searchItems" /\ pc = "done" /\ Returned(backendResult)

\* The sort rules of the request, in order.
SortRules == extractSortby(queryParameters)

\* The values of the last item at the fields of the sort rules, comma-joined.
SortCursor ==
    Str(JoinValues([i \in 1..Len(SortRules.a) |->
                        getNested(LastItem, Prop(SortRules.a[i], "field").s)], ","))

\* C4: for a non-empty page and an explicit list of sort rules the cursor of
\* the next link is the comma-join of the last item's values at the fields of
\* the sort rules, in their order (rules [id asc], last id 42: cursor "42").
C4_SortCursor ==
    (SearchAnswered /\ ReturnedPage # <<>> /\ SortRules # Undefined) =>
        (Len(NextLinks) = 1 /\ CursorOf(NextLinks[1]) = SortCursor)

\* C5: no next link for an empty page, exactly one link with rel "next" for a
\* non-empty one; without an explicit sort its cursor is the last item's
\* properties.datetime, id and collection, comma-joined in that order.
C5_DefaultCursor ==
    SearchAnswered =>
        /\ (ReturnedPage = <<>>) => (NextLinks = <<>>)
        /\ (ReturnedPage # <<>>) => (Len(NextLinks) = 1)
        /\ (ReturnedPage # <<>> /\ SortRules = Undefined) =>
               CursorOf(NextLinks[1]) =
                   Str(ToChars(getNested(LastItem, <<"properties", "datetime">>))
                       \o <<",">> \o ToChars(Prop(LastItem, "id"))
                       \o <<",">> \o ToChars(Prop(LastItem, "collection")))

\* A GET search without sortby answered with a page of two different items.
C5_Witness ==
    /\ SearchAnswered /\ httpMethod = "GET"
    /\ SortRules = Undefined
    /\ ReturnedPage = <<ItemA, ItemB>>
    /\ CursorOf(NextLinks[1]) = Str(<<"T2", ",", "7", ",", "c2">>)

\* C6: a searchItems or aggregate request with both bbox and intersects fails
\* with the validation error "Expected bbox OR intersects, not both" whatever
\* the other parameters are, before any other validation and any backend call.
C6_NotBoth ==
    (IsHandler /\ pc # "start" /\ BothSpatialFilters) =>
        /\ pc = "done"
        /\ outcome = ValidationError("Expected bbox OR intersects, not both")
        /\ backendCalls = 0

\* Both filters given, neither of them valid, with an invalid datetime.
C6_Witness ==
    /\ fn = "searchItems" /\ pc = "done"
    /\ Get(queryParameters, "bbox") = Str(<<"0", ",", "1", ",", "1", ",", "0">>)
    /\ Get(queryParameters, "intersects") = Str(<<"#">>)
    /\ Get(queryParameters, "datetime") = Str(<<"T2", "/", "T1">>)
    /\ outcome = ValidationError("Expected bbox OR intersects, not both")

\* The links addItemLinks is to give a record, around those it had.
ItemLinkRels == <<"parent", "collection", "root", "thumbnail">>

\* The record a decorated item was made from: the one at its place in the
\* backend's page.
HasItemLinks(decorated, original) ==
    LET links == Prop(decorated, "links")
        had == IF Prop(original, "links") = Undefined THEN <<>>
               ELSE Prop(original, "links").a
        collection == ToChars(Prop(original, "collection"))
        id == ToChars(Prop(original, "id"))
        itemHref == Endpoint \o <<"/collections/">> \o collection \o <<"/items/">> \o id
    IN /\ links # Undefined
       /\ Len(links.a) = Len(had) + 5
       /\ Prop(links.a[1], "rel") = Str(<<"self">>)
       /\ Prop(links.a[1], "href") = Str(itemHref)
       /\ SubSeq(links.a, 2, Len(had) + 1) = had
       /\ \A i \in 1..4 :
              Prop(links.a[Len(had) + 1 + i], "rel") = Str(<<ItemLinkRels[i]>>)
       /\ Prop(links.a[Len(had) + 2], "href")
              = Str(Endpoint \o <<"/collections/">> \o collection)
       /\ Prop(links.a[Len(had) + 3], "href")
              = Str(Endpoint \o <<"/collections/">> \o collection)
       /\ Prop(links.a[Len(had) + 4], "href") = Str(Endpoint)
       /\ Prop(links.a[Len(had) + 5], "href") = Str(itemHref \o <<"/thumbnail">>)

\* C11: every item of the feature collection searchItems returns, and the
\* item getItem returns, carries the links self, parent, collection, root and
\* thumbnail built from its collection and id, self first and the others in
\* that order after the links the record had; also a record without links.
C11_ItemLinks ==
    /\ (SearchAnswered /\ Returned(outcome)) =>
           \A i \in 1..Len(ReturnedPage) :
               HasItemLinks(outcome.val.o.features.a[i], ReturnedPage[i])
    /\ (fn = "getItem" /\ pc = "done" /\ Returned(backendResult)
            /\ ReturnedPage # <<>>) =>
           HasItemLinks(outcome.val, ReturnedPage[1])

\* What addItemLinks does guarantee: the links of every record that arrives
\* with a links list.
ItemLinksWhenListed ==
    (SearchAnswered /\ Returned(outcome)) =>
        \A i \in 1..Len(ReturnedPage) :
            (Prop(ReturnedPage[i], "links") # Undefined) =>
                HasItemLinks(outcome.val.o.features.a[i], ReturnedPage[i])

\* The next request the link of the answer describes: the query string of a
\* GET link, the body of a POST link.
NextDescriptor ==
    IF httpMethod = "GET" THEN NextLinks[1].o.href.o.query.o
    ELSE NextLinks[1].o.body.o

\* The descriptor carries `value` under `key`: as it is in a body, written
\* and escaped in a query string.
Carried(key, value) ==
    /\ key \in DOMAIN NextDescriptor
    /\ NextDescriptor[key] = IF httpMethod = "GET"
                             THEN encodeURIComponent(QueryValue(key, value))
                             ELSE value

\* The target of the next link.
NextTarget ==
    IF httpMethod = "GET" THEN NextLinks[1].o.href.o.endpoint
    ELSE NextLinks[1].o.href

NonSpatialFilters == {"datetime", "query", "sortby", "fields", "ids", "collections"}

CarriesFiltersAndCursor ==
    LET query == SearchParamsOf(queryParameters, httpMethod, collectionId)
        limit == extractLimit(queryParameters).val
    IN /\ Len(NextLinks) = 1
       /\ \A k \in NonSpatialFilters \cap DOMAIN query : Carried(k, query[k])
       /\ \A k \in {"bbox", "intersects"} :
              Truthy(Get(queryParameters, k)) => Carried(k, Get(queryParameters, k))
       /\ Truthy(limit) => Carried("limit", limit)
       /\ Carried("next", NextCursor(extractSortby(queryParameters), ReturnedPage))
       /\ NextTarget = Str(NewEndpoint(Endpoint, collectionId))

\* C12: for a non-empty page the next request descriptor carries every filter
\* of the request (datetime, spatial filter, query, sortby, fields, ids,
\* collections, limit) and the derived cursor under "next"; the link targets
\* the endpoint of the current request.
C12_NextCarriesFilters ==
    (SearchAnswered /\ Returned(outcome) /\ ReturnedPage # <<>>) =>
        CarriesFiltersAndCursor

\* The same for the requests without a sortby, where the cursor is not empty.
NextCarriesFiltersDefaultSort ==
    (SearchAnswered /\ Returned(outcome) /\ ReturnedPage # <<>>
        /\ ~Truthy(extractSortby(queryParameters))) =>
        CarriesFiltersAndCursor

\* The request passes every check made before the backend call.
ValidationPasses ==
    /\ ~BothSpatialFilters
    /\ \A r \in RequestValidations \cup {extractStacQuery(queryParameters)} : ~Threw(r)

\* C13: a searchItems or aggregate request calls the backend at most once,
\* and exactly once when its validation succeeds; a backend failure other
\* than a missing index is thrown on to the caller, without another call.
C13_SingleBackendCall ==
    IsHandler =>
        /\ backendCalls <= 1
        /\ (pc # "start" /\ ValidationPasses) => backendCalls = 1
        /\ (pc = "done" /\ Threw(backendResult) /\ ~backendResult.indexNotFound) =>
               (outcome = backendResult /\ backendCalls = 1)

\* A search and an aggregation whose backend call timed out.
C13_Witness ==
    /\ IsHandler /\ pc = "done" /\ ValidationPasses
    /\ backendResult = BackendError("timeout", FALSE)
    /\ outcome = backendResult
    /\ backendCalls = 1

\* The type an intersects value declares, given as GeoJSON or as its text.
DeclaredType(intersects) ==
    IF IsJsonText(intersects) THEN Prop(intersects.json, "type")
    ELSE IF intersects.t = "object" THEN Prop(intersects, "type")
    ELSE Undefined

\* The request reaches the check of intersects with a Feature or a
\* FeatureCollection.
IntersectsIsFeature ==
    /\ DeclaredType(Get(queryParameters, "intersects"))
           \in {Str(<<"Feature">>), Str(<<"FeatureCollection">>)}
    /\ ~BothSpatialFilters
    /\ ~Threw(extractDatetime(queryParameters))
    /\ ~Threw(extractBbox(queryParameters, httpMethod))

\* C14: an intersects geometry whose declared type is Feature or
\* FeatureCollection is rejected with a validation error, the kind of an
\* unparsable geometry or an invalid bbox.
C14_FeatureIsValidationError ==
    (IsHandler /\ pc = "done" /\ IntersectsIsFeature) => ThrewValidation(outcome)

\* What the code guarantees for such a geometry: it is rejected before the
\* backend is called.
FeatureIsRejected ==
    (IsHandler /\ pc = "done" /\ IntersectsIsFeature) =>
        (Threw(outcome) /\ backendCalls = 0)

\* The ids or collections parameter handed to the extractor.
IdsCalled == fn \in {"extractIds", "extractCollectionIds"} /\ pc = "done"
IdsParameter == Get(queryParameters, IF fn = "extractIds" THEN "ids" ELSE "collections")

\* C15: for a non-empty ids (or collections) parameter the extracted filter
\* is a list of ids: the decoded array of a JSON array string, the
\* comma-separated tokens of any other string (also of a single token such as
\* "123"), a copy of an already structured list.
C15_IdsAreLists ==
    (IdsCalled /\ Truthy(IdsParameter)) =>
        /\ IsArray(outcome.val)
        /\ outcome.val =
               IF IsJsonText(IdsParameter) THEN IdsParameter.json
               ELSE IF IsString(IdsParameter)
               THEN Arr(AsStrings(Split(IdsParameter.s, ",")))
               ELSE IdsParameter

\* What the extractors do guarantee: the claim for every string that is not
\* the text of a JSON number.
IdsAreListsUnlessNumeral ==
    (IdsCalled /\ Truthy(IdsParameter)
        /\ ~(IsChars(IdsParameter) /\ IsJsonNumber(IdsParameter.s))) =>
        /\ IsArray(outcome.val)
        /\ outcome.val =
               IF IsJsonText(IdsParameter) THEN IdsParameter.json
               ELSE IF IsString(IdsParameter)
               THEN Arr(AsStrings(Split(IdsParameter.s, ",")))
               ELSE IdsParameter

\* The tokens of a fields string that name an excluded field.
IsExcludeToken(token) == token # <<>> /\ Head(token) = "-"
IsIncludeToken(token) == ~IsExcludeToken(token)

RECURSIVE WithoutDash(_)
WithoutDash(tokens) ==
    IF tokens = <<>> THEN <<>> ELSE <<Tail(Head(tokens))>> \o WithoutDash(Tail(tokens))

\* The projection a fields string asks for.
ProjectionOf(s) ==
    Obj([include |-> Arr(AsStrings(SelectSeq(Split(s, ","), IsIncludeToken))),
         exclude |-> Arr(AsStrings(WithoutDash(SelectSeq(Split(s, ","), IsExcludeToken))))])

\* C16: a fields string is split on commas into include (the tokens without
\* a leading "-") and exclude (the others, the "-" removed); a fields
\* parameter that is present but empty gives the empty projection, which is
\* in the query handed to the backend; without a fields parameter the query
\* has no projection.
C16_FieldProjection ==
    (fn = "searchItems" /\ pc = "calling") =>
        LET fields == Get(queryParameters, "fields")
        IN /\ ("fields" \notin DOMAIN queryParameters) =>
                  ("fields" \notin DOMAIN searchParams)
           /\ (IsChars(fields) /\ fields.s = <<>>) =>
                  Get(searchParams, "fields") = EmptyObject
           /\ (IsChars(fields) /\ fields.s # <<>>) =>
                  Get(searchParams, "fields") = ProjectionOf(fields.s)
           /\ (fields = Str(<<"a", ",", "b", ",", "-", "c">>)) =>
                  Get(searchParams, "fields")
                      = Obj([include |-> Arr(<<Str(<<"a">>), Str(<<"b">>)>>),
                             exclude |-> Arr(<<Str(<<"c">>)>>)])

\* A search with an empty fields parameter at its backend call.
C16_Witness ==
    /\ fn = "searchItems" /\ pc = "calling"
    /\ Get(queryParameters, "fields") = Str(<<>>)
    /\ searchParams = [fields |-> EmptyObject]

\* decodeURIComponent of one value of a query string.
DecodeValue(v) ==
    IF "uriJson" \in DOMAIN v THEN JsonText(v.uriJson) ELSE Str(DecodeChars(v.s))

\* The query parameters a client sends when it follows the GET next link.
FollowedParams == [k \in DOMAIN NextDescriptor |-> DecodeValue(NextDescriptor[k])]

FilterKeys == {"datetime", "intersects", "query", "sortby", "fields", "ids", "collections"}

\* A GET search, its parameters strings as a query string gives them,
\* answered with a page that has a next link.
GetSearchWithNextLink ==
    /\ SearchAnswered /\ httpMethod = "GET" /\ Returned(outcome)
    /\ ReturnedPage # <<>>
    /\ \A k \in DOMAIN queryParameters : IsString(queryParameters[k])

FollowedFiltersAreTheSame(keys) ==
    LET original == SearchParamsOf(queryParameters, "GET", collectionId)
        again == SearchParamsOf(FollowedParams, "GET", collectionId)
    IN /\ ~Threw(SearchItemsValidation(FollowedParams, "GET"))
       /\ \A k \in keys : Get(again, k) = Get(original, k)
       /\ extractLimit(FollowedParams) = extractLimit(queryParameters)

\* C17: the query parameters of a GET next link, fed back through the
\* extraction of the parameters, give the filters of the request that produced
\* the link (sort rules, field projection, ids, collections, query, datetime,
\* spatial filter), with next set to the new cursor.
C17_NextLinkRoundTrip ==
    GetSearchWithNextLink =>
        /\ FollowedFiltersAreTheSame(FilterKeys)
        /\ Get(FollowedParams, "next")
               = NextCursor(extractSortby(queryParameters), ReturnedPage)

\* What the round trip does preserve: every filter but the field projection,
\* for the requests without a sortby.
RoundTripWithoutFieldsAndSortby ==
    (GetSearchWithNextLink /\ ~Truthy(extractSortby(queryParameters))) =>
        /\ FollowedFiltersAreTheSame(FilterKeys \ {"fields"})
        /\ Get(FollowedParams, "next")
               = NextCursor(extractSortby(queryParameters), ReturnedPage)

\* The sort rules alone come back the same.
RoundTripOfSortby ==
    GetSearchWithNextLink => FollowedFiltersAreTheSame({"sortby"})

\* C18: searchItems leaves the caller's queryParameters as it was, with the
\* same keys and values, in every step of a call: rejected by validation,
\* answered, or failed in the backend.
C18_QueryParametersUnchanged ==
    [][(fn = "searchItems") => (queryParameters' = queryParameters)]_vars

\* A collection-scoped search answered with a page: the routine has set
\* collections and merged bbox, intersects, limit and next into its own
\* parameters, and the caller's mapping has none of them.
C18_Witness ==
    /\ SearchAnswered /\ Returned(outcome) /\ ReturnedPage # <<>>
    /\ collectionId = Str(<<"c1">>)
    /\ DOMAIN queryParameters = {"ids"}
    /\ {"collections", "bbox", "intersects", "limit", "next"} \subseteq DOMAIN searchParams
    /\ searchParams.collections = Arr(<<collectionId>>)
    /\ Truthy(searchParams.next)

====
